---- MODULE Spec2Model ----
(***************************************************************************)
(* Trading decision and execution core of upbit_ml_paperbot:               *)
(*   PaperTrader   (src/paper_trader.py)    the paper-trading ledger       *)
(*   RiskEngine    (src/risk_engine.py)     daily-loss / cooldown gate     *)
(*   PositionSizer (src/position_sizer.py)  risk-based sizing              *)
(*                                                                         *)
(* Python floats are modelled as exact rationals <<n, d>> in lowest terms  *)
(* with d > 0 (binary rounding is not modelled); None is the empty tuple.  *)
(* A datetime is a number of minutes since midnight of day 0, so that      *)
(* now.date() is the minute count divided by MinutesPerDay.                *)
(***************************************************************************)
EXTENDS Integers, Sequences, FiniteSets, TLC

VARIABLES
    \* PaperTrader
    balance, position, entry_price, entry_notional, fee, history,
    \* RiskEngine
    start_of_day_balance, current_day, consecutive_losses, cooldown_until,
    max_daily_loss_pct, max_consecutive_losses, cooldown_minutes,
    \* PositionSizer
    risk_per_trade_pct, max_allocation_pct, min_order_krw, fee_roundtrip_pct,
    \* the decision loop: which program runs it (backtest_replay.main or
    \* RealtimePaperBot), main's equity_curve, the bot's open_market / open_tp /
    \* open_sl
    mode, equity_curve, open_market, open_tp, open_sl,
    \* CandleBuilder5m.current[market]
    current,
    \* the last call made on the core: its name, its arguments, what it found
    \* on entry and its outcome (raised, and ret: the value returned)
    last

ledgerVars == <<balance, position, entry_price, entry_notional, fee, history>>
riskState  == <<start_of_day_balance, current_day, consecutive_losses, cooldown_until>>
riskConfig == <<max_daily_loss_pct, max_consecutive_losses, cooldown_minutes>>
riskVars   == <<riskState, riskConfig>>
sizerVars  == <<risk_per_trade_pct, max_allocation_pct, min_order_krw, fee_roundtrip_pct>>
loopVars   == <<mode, equity_curve, open_market, open_tp, open_sl>>
builderVars == <<current>>
vars       == <<ledgerVars, riskVars, sizerVars, loopVars, builderVars, last>>

----------------------------------------------------------------------------
(* Exact rational arithmetic standing for the float operations.            *)

None == <<>>

Abs(n) == IF n < 0 THEN -n ELSE n

RECURSIVE GCD(_, _)
GCD(a, b) == IF b = 0 THEN a ELSE GCD(b, a % b)

\* n/d in lowest terms with a positive denominator (d # 0)
Q(n, d) ==
    LET s == IF d < 0 THEN -1 ELSE 1
        g == GCD(Abs(n), Abs(d))
    IN  <<(s * n) \div g, (s * d) \div g>>

Zero == Q(0, 1)
One  == Q(1, 1)

\* the operations cancel common factors before they multiply, which keeps the
\* intermediate products small; the results are those of Q
RNeg(a)    == <<-a[1], a[2]>>
RInv(a)    == IF a[1] < 0 THEN <<-a[2], -a[1]>> ELSE <<a[2], a[1]>>
RAdd(a, b) ==
    LET g == GCD(a[2], b[2])
    IN  Q(a[1] * (b[2] \div g) + b[1] * (a[2] \div g), (a[2] \div g) * b[2])
RSub(a, b) == RAdd(a, RNeg(b))
RMul(a, b) ==
    LET g1 == GCD(Abs(a[1]), b[2])
        g2 == GCD(Abs(b[1]), a[2])
    IN  <<(a[1] \div g1) * (b[1] \div g2), (a[2] \div g2) * (b[2] \div g1)>>
\* a / b for b # 0; the callers model the ZeroDivisionError of b = 0
RDiv(a, b) == RMul(a, RInv(b))
RLt(a, b)  ==
    LET g == GCD(a[2], b[2])
    IN  a[1] * (b[2] \div g) < b[1] * (a[2] \div g)
RLe(a, b)  == ~RLt(b, a)
RMax(a, b) == IF RLt(a, b) THEN b ELSE a
RMin(a, b) == IF RLt(b, a) THEN b ELSE a

----------------------------------------------------------------------------
(* Bounds and input domains.                                               *)

\* the longest trade history explored
MaxHist == 3

\* the initial_balance a PaperTrader is built with
initial_balance == Q(1000, 1)

\* fee rates a PaperTrader is built with: none, a half and the whole amount
Fees == {Zero, Q(1, 2), One}

\* prices passed to buy and sell
Prices == {Zero, Q(100, 1), Q(102, 1)}

\* bar highs and lows passed to check_tp_sl
BarPrices == {Q(99, 1), Q(100, 1), Q(102, 1)}

\* spend_krw passed to buy: omitted, nothing, a part of the balance
SpendOpts == {None, Zero, Q(500, 1)}

\* timestamps passed to the ledger
Timestamps == {1, 2}

\* take-profit / stop-loss fractions (defaults 0.015 and 0.009)
TpPcts == {Q(15, 1000)}
SlPcts == {Q(9, 1000)}

----------------------------------------------------------------------------
(* PaperTrader                                                             *)

can_buy == position = Zero /\ RLt(Zero, balance)

can_sell == RLt(Zero, position)

\* lines 22-24: the amount buy spends, before the "spend_krw <= 0" test
ClampSpend(spend_krw) ==
    LET s == IF spend_krw = None THEN balance ELSE spend_krw
    IN  RMax(Zero, RMin(s, balance))

BuyRecord(price, timestamp, qty, spend, fee_paid, bal) ==
    [time |-> timestamp, type |-> "BUY", price |-> price, qty |-> qty,
     spend_krw |-> spend, fee |-> fee_paid, balance |-> bal]

SellRecord(price, timestamp, pnl, bal, reason) ==
    [time |-> timestamp, type |-> "SELL", price |-> price, pnl |-> pnl,
     balance |-> bal, reason |-> reason]

\* a buy that tests only the amount, not can_buy
BuyReturnsEarly_NoCanBuy(spend_krw) == RLe(ClampSpend(spend_krw), Zero)

\* buy returns early (lines 20-21, 25-26)
BuyReturnsEarly(spend_krw) == ~can_buy \/ RLe(ClampSpend(spend_krw), Zero)

\* buy raises ZeroDivisionError at "qty = cost / price" (line 30)
BuyRaises(price, spend_krw) == ~BuyReturnsEarly(spend_krw) /\ price = Zero

\* the state change of buy(price, timestamp, spend_krw)
BuyEffect(price, timestamp, spend_krw) ==
    IF BuyReturnsEarly(spend_krw) \/ BuyRaises(price, spend_krw)
    THEN UNCHANGED ledgerVars
    ELSE LET spend    == ClampSpend(spend_krw)
             fee_paid == RMul(spend, fee)
             cost     == RSub(spend, fee_paid)
             qty      == RDiv(cost, price)
             bal      == RSub(balance, spend)
         IN  /\ position' = qty
             /\ entry_price' = price
             /\ entry_notional' = spend
             /\ balance' = bal
             /\ history' = Append(history,
                               BuyRecord(price, timestamp, qty, spend, fee_paid, bal))
             /\ UNCHANGED fee

\* the state change of sell(price, timestamp, reason)
SellEffect(price, timestamp, reason) ==
    IF ~can_sell
    THEN UNCHANGED ledgerVars
    ELSE LET proceeds == RMul(RMul(position, price), RSub(One, fee))
             notional == IF entry_notional # None THEN entry_notional
                         ELSE RMul(position, entry_price)
             pnl      == RSub(proceeds, notional)
             bal      == RAdd(balance, proceeds)
         IN  /\ balance' = bal
             /\ position' = Zero
             /\ entry_price' = None
             /\ entry_notional' = None
             /\ history' = Append(history, SellRecord(price, timestamp, pnl, bal, reason))
             /\ UNCHANGED fee

tp_price(tp) == RMul(entry_price, RAdd(One, tp))
sl_price(sl) == RMul(entry_price, RSub(One, sl))
tp_hit(high, tp) == RLe(tp_price(tp), high)
sl_hit(low, sl)  == RLe(low, sl_price(sl))

\* a check_tp_sl that resolves a bar breaching both thresholds as a take-profit
CheckTpSlEffect_TakeProfitFirst(high, low, timestamp, tp, sl) ==
    IF ~can_sell
    THEN UNCHANGED ledgerVars
    ELSE IF tp_hit(high, tp)
         THEN SellEffect(tp_price(tp), timestamp, "TP")
         ELSE IF sl_hit(low, sl)
              THEN SellEffect(sl_price(sl), timestamp, "SL")
              ELSE UNCHANGED ledgerVars

\* a check_tp_sl that fills at the bar's high or low instead of the threshold
CheckTpSlEffect_FillsAtBar(high, low, timestamp, tp, sl) ==
    IF ~can_sell
    THEN UNCHANGED ledgerVars
    ELSE IF tp_hit(high, tp) /\ sl_hit(low, sl)
         THEN SellEffect(sl_price(sl), timestamp, "SL_TIE")
         ELSE IF tp_hit(high, tp)
              THEN SellEffect(high, timestamp, "TP")
              ELSE IF sl_hit(low, sl)
                   THEN SellEffect(low, timestamp, "SL")
                   ELSE UNCHANGED ledgerVars

\* the state change of check_tp_sl(high, low, timestamp, tp, sl)
CheckTpSlEffect(high, low, timestamp, tp, sl) ==
    IF ~can_sell
    THEN UNCHANGED ledgerVars
    ELSE IF tp_hit(high, tp) /\ sl_hit(low, sl)
         THEN SellEffect(sl_price(sl), timestamp, "SL_TIE")
         ELSE IF tp_hit(high, tp)
              THEN SellEffect(tp_price(tp), timestamp, "TP")
              ELSE IF sl_hit(low, sl)
                   THEN SellEffect(sl_price(sl), timestamp, "SL")
                   ELSE UNCHANGED ledgerVars

----------------------------------------------------------------------------
(* RiskEngine                                                              *)

\* minutes in a calendar day: datetime.date() of a minute count
MinutesPerDay == 1440

\* the most consecutive losses recorded before the model stops losing
MaxLosses == 4

\* the last calendar day explored (days 0..MaxDay)
MaxDay == 1

\* times of day, in minutes: 00:00, 00:30 and 23:30
DayOffsets == {0, 30, 1410}

\* the datetimes passed as "now"
Times == {d * MinutesPerDay + o : d \in 0..MaxDay, o \in DayOffsets}

\* balances passed to can_trade
RiskBalances == {Zero, Q(970000, 1), Q(1000000, 1)}

\* realised results passed to record_trade_result
Pnls == {Q(-1, 1), Zero, Q(1, 1)}

\* now.date(), wrapped so that None compares with it
Date(now) == <<now \div MinutesPerDay>>

\* can_trade lines 43-45: _reset_day runs when no day is stored or the date differs
NeedsReset(now) == current_day = None \/ current_day # Date(now)

\* a rollover that moves the day anchor and the baseline but forgives nothing
AfterRollover_KeepsStreak(bal, now) ==
    IF NeedsReset(now)
    THEN [start_of_day_balance |-> bal, current_day |-> Date(now),
          consecutive_losses |-> consecutive_losses, cooldown_until |-> cooldown_until]
    ELSE [start_of_day_balance |-> start_of_day_balance, current_day |-> current_day,
          consecutive_losses |-> consecutive_losses, cooldown_until |-> cooldown_until]

\* the RiskState left by "if current_day is None: _reset_day" and _check_new_day
AfterRollover(bal, now) ==
    IF NeedsReset(now)
    THEN [start_of_day_balance |-> bal, current_day |-> Date(now),
          consecutive_losses |-> 0, cooldown_until |-> None]
    ELSE [start_of_day_balance |-> start_of_day_balance, current_day |-> current_day,
          consecutive_losses |-> consecutive_losses, cooldown_until |-> cooldown_until]

\* daily_loss_pct, for a start_of_day_balance sod that is neither None nor 0
daily_loss_pct(sod, bal) == RMul(RDiv(RSub(sod, bal), sod), Q(100, 1))

\* a daily-loss test that lets the limit itself pass
daily_loss_exceeded_Strict(sod, bal) == RLt(max_daily_loss_pct, daily_loss_pct(sod, bal))

daily_loss_exceeded(sod, bal) == RLe(max_daily_loss_pct, daily_loss_pct(sod, bal))

\* a cooldown test with the comparison turned round
in_cooldown_Reversed(until, now) == until # None /\ until[1] < now

in_cooldown(until, now) == until # None /\ now < until[1]

\* can_trade raises ZeroDivisionError in daily_loss_pct (line 26)
CanTradeRaises(bal, now) == AfterRollover(bal, now).start_of_day_balance = Zero

\* the value can_trade returns when it does not raise
CanTradeResult(bal, now) ==
    LET r == AfterRollover(bal, now)
    IN  IF daily_loss_exceeded(r.start_of_day_balance, bal) THEN FALSE
        ELSE IF in_cooldown(r.cooldown_until, now) THEN FALSE
        ELSE TRUE

\* the state change of can_trade(balance, now): the rollover, also when it then raises
CanTradeEffect(bal, now) ==
    LET r == AfterRollover(bal, now)
    IN  /\ start_of_day_balance' = r.start_of_day_balance
        /\ current_day' = r.current_day
        /\ consecutive_losses' = r.consecutive_losses
        /\ cooldown_until' = r.cooldown_until

\* the streak after record_trade_result(pnl, now) (lines 32-35)
NextLosses(pnl) == IF RLt(pnl, Zero) THEN consecutive_losses + 1 ELSE 0

\* a record_trade_result that restarts the streak when it sets a cooldown
RecordTradeResultEffect_RestartsStreak(pnl, now) ==
    /\ consecutive_losses' = IF NextLosses(pnl) >= max_consecutive_losses THEN 0
                             ELSE NextLosses(pnl)
    /\ cooldown_until' = IF NextLosses(pnl) >= max_consecutive_losses
                         THEN <<now + cooldown_minutes>>
                         ELSE cooldown_until
    /\ UNCHANGED <<start_of_day_balance, current_day>>

\* the state change of record_trade_result(pnl, now)
RecordTradeResultEffect(pnl, now) ==
    /\ consecutive_losses' = NextLosses(pnl)
    /\ cooldown_until' = IF NextLosses(pnl) >= max_consecutive_losses
                         THEN <<now + cooldown_minutes>>
                         ELSE cooldown_until
    /\ UNCHANGED <<start_of_day_balance, current_day>>

----------------------------------------------------------------------------
(* PositionSizer                                                           *)

\* equity_krw, stop_pct and price passed to the sizer
Equities    == {Q(-100, 1), Zero, Q(10, 1), Q(100, 1)}
StopPcts    == {Q(-9, 1000), Zero, Q(9, 1000), Q(5, 100), One}
SizerPrices == {None, Zero, Q(100, 1)}

\* configurations a PositionSizer is built with (defaults 0.30, 10.0, 5000.0, 0.10)
RiskPerTradePcts  == {Q(3, 10), One}
MaxAllocationPcts == {Q(10, 1), Q(50, 1)}
MinOrders         == {Zero, Q(5, 1)}
FeeRoundtripPcts  == {Q(-2, 1), Zero, Q(1, 10)}

\* the floor 1e-9 of the divisor (line 33)
MinRiskPerInvested == Q(1, 1000000000)

PositionSizeResult(krw, qty, stop_price, risk_krw) ==
    [krw_to_spend |-> krw, qty |-> qty, stop_price |-> stop_price, risk_krw |-> risk_krw]

\* PositionSizeResult(0.0, None, None, 0.0)
ZeroSizing == PositionSizeResult(Zero, None, None, Zero)

clamp(x, lo, hi) == RMax(lo, RMin(hi, x))

risk_budget_krw(equity_krw) == RMul(equity_krw, RDiv(risk_per_trade_pct, Q(100, 1)))

fee_component == RDiv(fee_roundtrip_pct, Q(100, 1))

\* a risk per invested unit that shrinks as the stop widens
risk_per_invested_Shrinking(stop_pct) == RAdd(RSub(One, stop_pct), fee_component)

risk_per_invested(stop_pct) == RAdd(stop_pct, fee_component)

\* line 33: the amount before the clamp
UnclampedSpend(equity_krw, stop_pct) ==
    RDiv(risk_budget_krw(equity_krw), RMax(risk_per_invested(stop_pct), MinRiskPerInvested))

AllocationCap(equity_krw) == RMul(equity_krw, RDiv(max_allocation_pct, Q(100, 1)))

\* lines 34-35: the amount after the clamp, before the minimum-order test
ClampedSpend(equity_krw, stop_pct) ==
    clamp(UnclampedSpend(equity_krw, stop_pct), Zero, AllocationCap(equity_krw))

\* a sizing that rejects only a stop that is not positive
SizeIsZero_NoMinimum(equity_krw, stop_pct) == RLe(stop_pct, Zero)

\* size_from_stop_pct returns the zero sizing (lines 26-27, 37-38)
SizeIsZero(equity_krw, stop_pct) ==
    RLe(stop_pct, Zero) \/ RLt(ClampedSpend(equity_krw, stop_pct), min_order_krw)

\* size_from_stop_pct raises ZeroDivisionError at "qty = ... / price" (line 43)
SizeRaises(equity_krw, stop_pct, price) ==
    ~SizeIsZero(equity_krw, stop_pct) /\ price = Zero

\* the value size_from_stop_pct returns when it does not raise
size_from_stop_pct(equity_krw, stop_pct, price) ==
    IF SizeIsZero(equity_krw, stop_pct) THEN ZeroSizing
    ELSE LET krw == ClampedSpend(equity_krw, stop_pct)
         IN  IF price = None
             THEN PositionSizeResult(krw, None, None, risk_budget_krw(equity_krw))
             ELSE PositionSizeResult(
                      krw,
                      RDiv(RMul(krw, RSub(One, fee_component)), price),
                      RMul(price, RSub(One, stop_pct)),
                      RMul(krw, risk_per_invested(stop_pct)))

\* size_from_atr_pct: stop_pct = atr_pct * stop_atr_mult, then as above
size_from_atr_pct(equity_krw, atr_pct, stop_atr_mult, price) ==
    size_from_stop_pct(equity_krw, RMul(atr_pct, stop_atr_mult), price)

----------------------------------------------------------------------------
(* Construction.                                                           *)

NoCall == [op |-> "none", raised |-> FALSE]

\* no decision loop is running
NoLoop ==
    /\ mode = "none"
    /\ equity_curve = <<>>
    /\ open_market = None
    /\ open_tp = None
    /\ open_sl = None

\* CandleBuilder5m.__init__: no candle in progress
BuilderInit == current = None

\* PaperTrader.__init__
LedgerInit(f) ==
    /\ balance = initial_balance
    /\ position = Zero
    /\ entry_price = None
    /\ entry_notional = None
    /\ fee = f
    /\ history = <<>>

\* RiskEngine.__init__
RiskInit(loss_pct, losses, minutes) ==
    /\ max_daily_loss_pct = loss_pct
    /\ max_consecutive_losses = losses
    /\ cooldown_minutes = minutes
    /\ start_of_day_balance = None
    /\ current_day = None
    /\ consecutive_losses = 0
    /\ cooldown_until = None

\* PositionSizer.__init__
SizerInit(risk_pct, alloc_pct, min_order, fee_pct) ==
    /\ risk_per_trade_pct = risk_pct
    /\ max_allocation_pct = alloc_pct
    /\ min_order_krw = min_order
    /\ fee_roundtrip_pct = fee_pct

\* the objects as backtest_replay.main and RealtimePaperBot.__init__ build them
DefaultLedger == LedgerInit(Q(1, 1000))
DefaultRisk   == RiskInit(Q(3, 1), 3, 60)
DefaultSizer  == SizerInit(Q(3, 10), Q(10, 1), Q(5000, 1), Q(1, 10))

----------------------------------------------------------------------------
(* The ledger on its own: any sequence of buy, sell and check_tp_sl calls. *)

Buy ==
    \E price \in Prices, timestamp \in Timestamps, spend_krw \in SpendOpts :
        /\ Len(history) < MaxHist
        /\ BuyEffect(price, timestamp, spend_krw)
        /\ last' = [op |-> "buy", long |-> can_sell,
                    raised |-> BuyRaises(price, spend_krw)]
        /\ UNCHANGED <<riskVars, sizerVars, loopVars, builderVars>>

Sell ==
    \E price \in Prices, timestamp \in Timestamps :
        /\ Len(history) < MaxHist
        /\ SellEffect(price, timestamp, "EXIT")
        /\ last' = [op |-> "sell", long |-> can_sell, raised |-> FALSE]
        /\ UNCHANGED <<riskVars, sizerVars, loopVars, builderVars>>

CheckTpSl ==
    \E high \in BarPrices, low \in BarPrices, timestamp \in Timestamps,
       tp \in TpPcts, sl \in SlPcts :
        /\ Len(history) < MaxHist
        /\ CheckTpSlEffect(high, low, timestamp, tp, sl)
        /\ last' = [op |-> "check_tp_sl", long |-> can_sell, high |-> high,
                    low |-> low, tp |-> tp, sl |-> sl, raised |-> FALSE]
        /\ UNCHANGED <<riskVars, sizerVars, loopVars, builderVars>>

InitLedger ==
    /\ \E f \in Fees : LedgerInit(f)
    /\ DefaultRisk
    /\ DefaultSizer
    /\ NoLoop
    /\ BuilderInit
    /\ last = NoCall

NextLedger == Buy \/ Sell \/ CheckTpSl

SpecLedger == InitLedger /\ [][NextLedger]_vars

----------------------------------------------------------------------------
(* The risk gate on its own: any sequence of can_trade and                 *)
(* record_trade_result calls.                                              *)

MaxConsecutiveLossesOpts == {1, 3}

\* the RiskState a call finds on entry
RiskSnapshot ==
    [start_of_day_balance |-> start_of_day_balance, current_day |-> current_day,
     consecutive_losses |-> consecutive_losses, cooldown_until |-> cooldown_until]

CanTrade ==
    \E bal \in RiskBalances, now \in Times :
        /\ CanTradeEffect(bal, now)
        /\ last' = [op |-> "can_trade", balance |-> bal, now |-> now,
                    before |-> RiskSnapshot,
                    raised |-> CanTradeRaises(bal, now),
                    ret |-> IF CanTradeRaises(bal, now) THEN None
                            ELSE CanTradeResult(bal, now)]
        /\ UNCHANGED <<riskConfig, ledgerVars, sizerVars, loopVars, builderVars>>

RecordTradeResult ==
    \E pnl \in Pnls, now \in Times :
        /\ RLt(pnl, Zero) => consecutive_losses < MaxLosses
        /\ RecordTradeResultEffect(pnl, now)
        /\ last' = [op |-> "record_trade_result", pnl |-> pnl, now |-> now,
                    before |-> RiskSnapshot, raised |-> FALSE]
        /\ UNCHANGED <<riskConfig, ledgerVars, sizerVars, loopVars, builderVars>>

InitRisk ==
    /\ DefaultLedger
    /\ \E losses \in MaxConsecutiveLossesOpts : RiskInit(Q(3, 1), losses, 60)
    /\ DefaultSizer
    /\ NoLoop
    /\ BuilderInit
    /\ last = NoCall

NextRisk == CanTrade \/ RecordTradeResult

SpecRisk == InitRisk /\ [][NextRisk]_vars

----------------------------------------------------------------------------
(* The sizer on its own: size_from_stop_pct applied to any inputs under    *)
(* any configuration.                                                      *)

SizeFromStopPct ==
    \E equity_krw \in Equities, stop_pct \in StopPcts, price \in SizerPrices :
        /\ last' = [op |-> "size_from_stop_pct", equity_krw |-> equity_krw,
                    stop_pct |-> stop_pct, price |-> price,
                    raised |-> SizeRaises(equity_krw, stop_pct, price),
                    ret |-> IF SizeRaises(equity_krw, stop_pct, price) THEN None
                            ELSE size_from_stop_pct(equity_krw, stop_pct, price)]
        /\ UNCHANGED <<ledgerVars, riskVars, sizerVars, loopVars, builderVars>>

InitSizer ==
    /\ DefaultLedger
    /\ DefaultRisk
    /\ \E risk_pct \in RiskPerTradePcts, alloc_pct \in MaxAllocationPcts,
          min_order \in MinOrders, fee_pct \in FeeRoundtripPcts :
            SizerInit(risk_pct, alloc_pct, min_order, fee_pct)
    /\ NoLoop
    /\ BuilderInit
    /\ last = NoCall

NextSizer == SizeFromStopPct

SpecSizer == InitSizer /\ [][NextSizer]_vars

----------------------------------------------------------------------------
(* Claims about the ledger, checked under SpecLedger.                      *)

Long == RLt(Zero, position)
Flat == position = Zero

LastRecord == history[Len(history)]

\* C1: in every reachable state of the ledger, positionQty > 0 holds if and
\* only if entryPrice is set, if and only if entryNotional is set.
C1_PositionIffEntrySet ==
    /\ Long <=> entry_price # None
    /\ entry_price # None <=> entry_notional # None

\* C3: can_buy is false in every state between a buy that appended a BUY
\* record and the next sell: while the last record of the history is a BUY.
C3_NoBuyWhileOpen ==
    (history # <<>> /\ LastRecord.type = "BUY") => ~can_buy

\* C2: buy while Long, and sell or check_tp_sl while Flat, leave balance,
\* position, entry price, entry notional and the history unchanged and raise
\* nothing.
C2_RejectedCallsAreNoOps ==
    [][(\/ last'.op = "buy" /\ Long
        \/ last'.op \in {"sell", "check_tp_sl"} /\ Flat)
       => /\ UNCHANGED <<balance, position, entry_price, entry_notional, history>>
          /\ ~last'.raised]_vars

\* C2 happens: a buy was called on a Long ledger that stays Long with the one
\* BUY record it had
C2_Witness ==
    /\ last.op = "buy" /\ last.long
    /\ Long
    /\ Len(history) = 1

\* C4: when the ledger is Long and the bar breaches both thresholds,
\* check_tp_sl appends exactly one SELL record, at the stop-loss price
\* entry_price * (1 - sl) and with reason SL_TIE, and closes the position.
C4_TieSellsAtStopLoss ==
    [][(/\ last'.op = "check_tp_sl"
        /\ Long
        /\ RLe(RMul(entry_price, RAdd(One, last'.tp)), last'.high)
        /\ RLe(last'.low, RMul(entry_price, RSub(One, last'.sl))))
       => /\ Len(history') = Len(history) + 1
          /\ SubSeq(history', 1, Len(history)) = history
          /\ history'[Len(history')].type = "SELL"
          /\ history'[Len(history')].price = RMul(entry_price, RSub(One, last'.sl))
          /\ history'[Len(history')].reason = "SL_TIE"
          /\ position' = Zero]_vars

\* C4 happens: entry 100, tp 0.015, sl 0.009, high 102, low 99 sold at 99.1
C4_Witness ==
    /\ last.op = "check_tp_sl" /\ last.long
    /\ last.high = Q(102, 1) /\ last.low = Q(99, 1)
    /\ last.tp = Q(15, 1000) /\ last.sl = Q(9, 1000)
    /\ Len(history) = 2
    /\ history[1].type = "BUY" /\ history[1].price = Q(100, 1)
    /\ history[2].type = "SELL" /\ history[2].price = Q(991, 10)
    /\ history[2].reason = "SL_TIE"

\* C5: when the ledger is Long and exactly one threshold is breached,
\* check_tp_sl sells at the threshold price (tp price with reason TP, sl price
\* with reason SL); when neither is breached it changes nothing.
C5_SingleBreachSellsAtThreshold ==
    [][(last'.op = "check_tp_sl" /\ Long)
       => LET tpP  == RMul(entry_price, RAdd(One, last'.tp))
              slP  == RMul(entry_price, RSub(One, last'.sl))
              tpOn == RLe(tpP, last'.high)
              slOn == RLe(last'.low, slP)
              sold == /\ Len(history') = Len(history) + 1
                      /\ SubSeq(history', 1, Len(history)) = history
                      /\ history'[Len(history')].type = "SELL"
                      /\ position' = Zero
          IN  /\ (tpOn /\ ~slOn) =>
                    /\ sold
                    /\ history'[Len(history')].price = tpP
                    /\ history'[Len(history')].reason = "TP"
              /\ (slOn /\ ~tpOn) =>
                    /\ sold
                    /\ history'[Len(history')].price = slP
                    /\ history'[Len(history')].reason = "SL"
              /\ (~tpOn /\ ~slOn) => UNCHANGED ledgerVars]_vars

\* C5 happens: entry 100, only the take-profit breached by a bar reaching
\* 102, sold at 101.5 and not at the bar's high
C5_Witness ==
    /\ last.op = "check_tp_sl" /\ last.long
    /\ last.high = Q(102, 1) /\ last.low = Q(100, 1)
    /\ Len(history) = 2
    /\ history[1].price = Q(100, 1)
    /\ history[2].type = "SELL" /\ history[2].price = Q(203, 2)
    /\ history[2].reason = "TP"

----------------------------------------------------------------------------
(* Claims about the risk gate, checked under SpecRisk.                     *)

\* C6 as stated, for a gate that has stored its day anchor: once a cooldown is
\* set, every can_trade(balance, now) with now < cooldown_until returns False,
\* for any balance and any such now.
C6_CooldownBlocksAnyNow ==
    [][(/\ last'.op = "can_trade"
        /\ ~last'.raised
        /\ current_day # None
        /\ cooldown_until # None
        /\ last'.now < cooldown_until[1])
       => last'.ret = FALSE]_vars

\* C6 as amended: once a cooldown is set, every can_trade(balance, now) with
\* now < cooldown_until and now on the calendar date of the day anchor does
\* not return True.
C6_CooldownBlocksSameDay ==
    [][(/\ last'.op = "can_trade"
        /\ cooldown_until # None
        /\ last'.now < cooldown_until[1]
        /\ current_day = <<last'.now \div MinutesPerDay>>)
       => (last'.raised \/ last'.ret = FALSE)]_vars

\* C6 happens: can_trade returned False inside the cooldown on a day whose
\* balance stands at its start-of-day value
C6_Witness ==
    /\ last.op = "can_trade" /\ ~last.raised
    /\ last.before.cooldown_until # None
    /\ last.now < last.before.cooldown_until[1]
    /\ last.before.current_day = <<last.now \div MinutesPerDay>>
    /\ last.before.consecutive_losses >= max_consecutive_losses
    /\ last.balance = start_of_day_balance
    /\ last.ret = FALSE

\* C7: record_trade_result adds exactly 1 to the streak when pnl < 0 and sets
\* it to 0 when pnl >= 0; a can_trade on the anchor's date leaves the streak
\* alone, so a loss recorded after the cooldown has expired, with the streak
\* intact, sets cooldown_until = now + cooldown_minutes again.
C7_StreakCounter ==
    [][/\ last'.op = "record_trade_result" =>
            /\ RLt(last'.pnl, Zero) => consecutive_losses' = consecutive_losses + 1
            /\ ~RLt(last'.pnl, Zero) => consecutive_losses' = 0
            /\ (/\ RLt(last'.pnl, Zero)
                /\ consecutive_losses >= max_consecutive_losses
                /\ cooldown_until # None
                /\ last'.now >= cooldown_until[1])
               => cooldown_until' = <<last'.now + cooldown_minutes>>
       /\ (/\ last'.op = "can_trade"
           /\ current_day = <<last'.now \div MinutesPerDay>>)
          => consecutive_losses' = consecutive_losses]_vars

\* C7 happens: a loss recorded on the anchor's date after the cooldown had
\* expired, with the streak at its limit, set a new cooldown
C7_Witness ==
    /\ last.op = "record_trade_result"
    /\ RLt(last.pnl, Zero)
    /\ last.before.consecutive_losses >= max_consecutive_losses
    /\ last.before.cooldown_until # None
    /\ last.now >= last.before.cooldown_until[1]
    /\ last.before.current_day = <<last.now \div MinutesPerDay>>
    /\ consecutive_losses = last.before.consecutive_losses + 1
    /\ cooldown_until = <<last.now + cooldown_minutes>>
    /\ cooldown_until # last.before.cooldown_until

\* C8: a can_trade(balance, now) whose date differs from the day anchor leaves
\* start_of_day_balance = balance, consecutive_losses = 0 and cooldown_until =
\* None; a can_trade on the anchor's date leaves start_of_day_balance alone.
C8_RolloverResets ==
    [][last'.op = "can_trade" =>
          IF current_day # <<last'.now \div MinutesPerDay>>
          THEN /\ start_of_day_balance' = last'.balance
               /\ consecutive_losses' = 0
               /\ cooldown_until' = None
          ELSE start_of_day_balance' = start_of_day_balance]_vars

\* C8 happens: a can_trade on a new date found a streak, a cooldown and
\* another baseline, and reset all three
C8_Witness ==
    /\ last.op = "can_trade"
    /\ last.before.current_day # None
    /\ last.before.current_day # <<last.now \div MinutesPerDay>>
    /\ last.before.consecutive_losses > 0
    /\ last.before.cooldown_until # None
    /\ last.before.start_of_day_balance # last.balance
    /\ start_of_day_balance = last.balance
    /\ consecutive_losses = 0
    /\ cooldown_until = None

\* C9: can_trade returns False whenever, after the rollover check,
\* (start_of_day_balance - balance) / start_of_day_balance * 100 >=
\* max_daily_loss_pct, and returns True exactly when that loss is below the
\* limit and no cooldown is active at now.
C9_DailyLossLimit ==
    (last.op = "can_trade" /\ ~last.raised) =>
        LET pct == RMul(RDiv(RSub(start_of_day_balance, last.balance),
                             start_of_day_balance), Q(100, 1))
            cooling == cooldown_until # None /\ last.now < cooldown_until[1]
        IN  /\ RLe(max_daily_loss_pct, pct) => last.ret = FALSE
            /\ last.ret = TRUE <=> (RLt(pct, max_daily_loss_pct) /\ ~cooling)

\* C9 happens: a loss of exactly max_daily_loss_pct, outside any cooldown, was
\* denied
C9_Witness ==
    /\ last.op = "can_trade" /\ ~last.raised
    /\ start_of_day_balance = Q(1000000, 1)
    /\ last.balance = Q(970000, 1)
    /\ max_daily_loss_pct = Q(3, 1)
    /\ cooldown_until = None
    /\ last.ret = FALSE

----------------------------------------------------------------------------
(* Claims about the sizer, checked under SpecSizer.                        *)

\* C10 as stated: size_from_stop_pct returns krw_to_spend <= equity *
\* max_allocation_pct / 100, and the zero sizing (no quantity, no stop price)
\* when stop_pct <= 0 or risk budget / (stop_pct + fee_roundtrip_pct / 100) is
\* below min_order_krw.
C10_SpendWithinAllocation ==
    (last.op = "size_from_stop_pct" /\ ~last.raised) =>
        LET cap    == RDiv(RMul(last.equity_krw, max_allocation_pct), Q(100, 1))
            budget == RDiv(RMul(last.equity_krw, risk_per_trade_pct), Q(100, 1))
            unit   == RAdd(last.stop_pct, RDiv(fee_roundtrip_pct, Q(100, 1)))
        IN  /\ RLe(last.ret.krw_to_spend, cap)
            /\ RLe(last.stop_pct, Zero) => last.ret = ZeroSizing
            /\ (RLt(Zero, last.stop_pct) /\ unit # Zero
                  /\ RLt(RDiv(budget, unit), min_order_krw))
               => last.ret = ZeroSizing

\* C10 as amended: size_from_stop_pct returns krw_to_spend <= max(0, equity *
\* max_allocation_pct / 100); it returns the zero sizing when stop_pct <= 0,
\* and krw_to_spend 0 when risk budget / max(stop_pct + fee_roundtrip_pct /
\* 100, 1e-9) is below min_order_krw, with no quantity and no stop price if
\* min_order_krw > 0; an amount it returns that is not 0 is the clamped amount
\* and at least min_order_krw.
C10_SpendWithinAllocationOrZero ==
    (last.op = "size_from_stop_pct" /\ ~last.raised) =>
        LET cap    == RDiv(RMul(last.equity_krw, max_allocation_pct), Q(100, 1))
            budget == RDiv(RMul(last.equity_krw, risk_per_trade_pct), Q(100, 1))
            unit   == RAdd(last.stop_pct, RDiv(fee_roundtrip_pct, Q(100, 1)))
            floor  == IF RLt(unit, Q(1, 1000000000)) THEN Q(1, 1000000000) ELSE unit
            raw    == RDiv(budget, floor)
            krw    == last.ret.krw_to_spend
        IN  /\ RLe(krw, RMax(Zero, cap))
            /\ RLe(last.stop_pct, Zero) => last.ret = ZeroSizing
            /\ (RLt(Zero, last.stop_pct) /\ RLt(raw, min_order_krw))
               => /\ krw = Zero
                  /\ RLt(Zero, min_order_krw) => last.ret = ZeroSizing
            /\ krw # Zero => /\ RLe(min_order_krw, krw)
                             /\ krw = RMax(Zero, RMin(cap, raw))

\* C10 happens: a positive amount below the minimum order was sized to zero,
\* not raised to the minimum
C10_Witness ==
    /\ last.op = "size_from_stop_pct" /\ ~last.raised
    /\ RLt(Zero, last.stop_pct)
    /\ RLt(Zero, ClampedSpend(last.equity_krw, last.stop_pct))
    /\ RLt(ClampedSpend(last.equity_krw, last.stop_pct), min_order_krw)
    /\ last.ret = ZeroSizing

----------------------------------------------------------------------------
(* Sizers compared: a PositionSizer is built, asked for a size, and        *)
(* another PositionSizer is built in its place.                            *)

\* krw_to_spend of size_from_stop_pct under the sizer of the current state
SpendOf(equity_krw, stop_pct) == size_from_stop_pct(equity_krw, stop_pct, None).krw_to_spend

\* the sizer a call finds: its configuration and the amounts it returns
SizerSnapshot ==
    [risk_per_trade_pct |-> risk_per_trade_pct, max_allocation_pct |-> max_allocation_pct,
     min_order_krw |-> min_order_krw, fee_roundtrip_pct |-> fee_roundtrip_pct,
     spend |-> [e \in Equities, s \in StopPcts |-> SpendOf(e, s)]]

\* PositionSizer.__init__ called again: the sizer is replaced by a new one
NewSizer ==
    LET before == SizerSnapshot
    IN  \E risk_pct \in RiskPerTradePcts, alloc_pct \in MaxAllocationPcts,
           min_order \in MinOrders, fee_pct \in FeeRoundtripPcts :
            /\ risk_per_trade_pct' = risk_pct
            /\ max_allocation_pct' = alloc_pct
            /\ min_order_krw' = min_order
            /\ fee_roundtrip_pct' = fee_pct
            /\ last' = [op |-> "PositionSizer", before |-> before, raised |-> FALSE]
            /\ UNCHANGED <<ledgerVars, riskVars, loopVars, builderVars>>

NextSizers == SizeFromStopPct \/ NewSizer

SpecSizers == InitSizer /\ [][NextSizers]_vars

\* the sizer differs from the one it replaced in risk_per_trade_pct only, and
\* has the larger one
RaisedRiskPerTrade ==
    /\ last.op = "PositionSizer"
    /\ RLt(last.before.risk_per_trade_pct, risk_per_trade_pct)
    /\ last.before.max_allocation_pct = max_allocation_pct
    /\ last.before.min_order_krw = min_order_krw
    /\ last.before.fee_roundtrip_pct = fee_roundtrip_pct

\* C11 as stated: for fixed other inputs krw_to_spend does not decrease when
\* risk_per_trade_pct grows and does not increase when stop_pct grows, over
\* all values of stop_pct, those <= 0 included.
C11_Monotone ==
    /\ (last.op = "size_from_stop_pct" /\ ~last.raised) =>
            \A s2 \in StopPcts :
                RLe(last.stop_pct, s2) =>
                    RLe(SpendOf(last.equity_krw, s2), last.ret.krw_to_spend)
    /\ RaisedRiskPerTrade =>
            \A e \in Equities, s \in StopPcts : RLe(last.before.spend[e, s], SpendOf(e, s))

\* C11 as amended: krw_to_spend does not decrease when risk_per_trade_pct
\* grows, for every stop_pct; it does not increase when stop_pct grows over
\* the stop_pct > 0; for stop_pct <= 0 it is 0, which no other amount is below.
C11_MonotoneForPositiveStop ==
    /\ (last.op = "size_from_stop_pct" /\ ~last.raised) =>
            \A s2 \in StopPcts :
                /\ (RLt(Zero, last.stop_pct) /\ RLe(last.stop_pct, s2)) =>
                        RLe(SpendOf(last.equity_krw, s2), last.ret.krw_to_spend)
                /\ RLe(last.stop_pct, Zero) =>
                        /\ last.ret.krw_to_spend = Zero
                        /\ RLe(Zero, SpendOf(last.equity_krw, s2))
    /\ RaisedRiskPerTrade =>
            \A e \in Equities, s \in StopPcts : RLe(last.before.spend[e, s], SpendOf(e, s))

\* C11 happens: a sizer with a larger risk_per_trade_pct returns more than the
\* one it replaced did for stop_pct 0.05, and for stop_pct 0.009 it returns
\* more than for stop_pct 0.05
C11_Witness ==
    /\ RaisedRiskPerTrade
    /\ \E e \in Equities :
          /\ RLt(Zero, last.before.spend[e, Q(5, 100)])
          /\ RLt(last.before.spend[e, Q(5, 100)], SpendOf(e, Q(5, 100)))
          /\ RLt(SpendOf(e, Q(5, 100)), SpendOf(e, Q(9, 1000)))

----------------------------------------------------------------------------
(* TradeGuard (src/trade_guard.py)                                         *)

TradeDecision(allowed, reason, sizing) ==
    [allowed |-> allowed, reason |-> reason, sizing |-> sizing]

\* stop_atr_mult of evaluate_entry (its default)
stop_atr_mult == One

\* the sizing evaluate_entry asks for (lines 31-34), when a stop is supplied
GuardSizing(equity_krw, price, stop_pct, atr_pct) ==
    IF stop_pct # None
    THEN size_from_stop_pct(equity_krw, stop_pct, price)
    ELSE size_from_atr_pct(equity_krw, atr_pct, stop_atr_mult, price)

\* that sizing raises ZeroDivisionError
GuardSizingRaises(equity_krw, price, stop_pct, atr_pct) ==
    IF stop_pct # None THEN SizeRaises(equity_krw, stop_pct, price)
    ELSE IF atr_pct # None THEN SizeRaises(equity_krw, RMul(atr_pct, stop_atr_mult), price)
    ELSE FALSE

\* evaluate_entry raises: in can_trade, or in the sizing once can_trade let it pass
EvaluateEntryRaises(equity_krw, now, price, stop_pct, atr_pct) ==
    \/ CanTradeRaises(equity_krw, now)
    \/ /\ CanTradeResult(equity_krw, now)
       /\ GuardSizingRaises(equity_krw, price, stop_pct, atr_pct)

\* an evaluate_entry that looks for the stop before it asks the risk gate
evaluate_entry_StopFirst(equity_krw, now, price, stop_pct, atr_pct) ==
    IF stop_pct = None /\ atr_pct = None
    THEN TradeDecision(FALSE, "no_stop_defined", None)
    ELSE IF ~CanTradeResult(equity_krw, now)
    THEN TradeDecision(FALSE, "risk_gate_blocked", None)
    ELSE LET sizing == GuardSizing(equity_krw, price, stop_pct, atr_pct)
         IN  IF RLe(sizing.krw_to_spend, Zero)
             THEN TradeDecision(FALSE, "size_zero_or_below_min", None)
             ELSE TradeDecision(TRUE, "ok", sizing)

\* the TradeDecision evaluate_entry returns when it does not raise
evaluate_entry(equity_krw, now, price, stop_pct, atr_pct) ==
    IF ~CanTradeResult(equity_krw, now)
    THEN TradeDecision(FALSE, "risk_gate_blocked", None)
    ELSE IF stop_pct = None /\ atr_pct = None
    THEN TradeDecision(FALSE, "no_stop_defined", None)
    ELSE LET sizing == GuardSizing(equity_krw, price, stop_pct, atr_pct)
         IN  IF RLe(sizing.krw_to_spend, Zero)
             THEN TradeDecision(FALSE, "size_zero_or_below_min", None)
             ELSE TradeDecision(TRUE, "ok", sizing)

----------------------------------------------------------------------------
(* The guard over a risk gate and a sizer: any sequence of evaluate_entry  *)
(* and record_trade_result calls.                                          *)

\* arguments passed to evaluate_entry
GuardEquities == {Zero, Q(100, 1), Q(1000000, 1)}
GuardPrices   == {Zero, Q(100, 1)}

\* the datetimes passed to the guard: 00:00 and 00:30 of day 0, 00:00 of day 1
GuardTimes == {0, 30, MinutesPerDay}

\* the pairs <<stop_pct, atr_pct>> passed to evaluate_entry
GuardStops == {<<None, None>>, <<Zero, None>>, <<Q(9, 1000), None>>,
               <<None, Q(9, 1000)>>, <<Zero, Q(9, 1000)>>}

EvaluateEntry ==
    \E equity_krw \in GuardEquities, now \in GuardTimes, price \in GuardPrices,
       stops \in GuardStops :
        LET stop_pct == stops[1]
            atr_pct  == stops[2]
        IN  /\ CanTradeEffect(equity_krw, now)
            /\ last' = [op |-> "evaluate_entry", equity_krw |-> equity_krw, now |-> now,
                        price |-> price, stop_pct |-> stop_pct, atr_pct |-> atr_pct,
                        rolled |-> NeedsReset(now),
                        raised |-> EvaluateEntryRaises(equity_krw, now, price,
                                                       stop_pct, atr_pct),
                        ret |-> IF EvaluateEntryRaises(equity_krw, now, price,
                                                       stop_pct, atr_pct)
                                THEN None
                                ELSE evaluate_entry(equity_krw, now, price,
                                                    stop_pct, atr_pct)]
            /\ UNCHANGED <<riskConfig, ledgerVars, sizerVars, loopVars, builderVars>>

\* record_trade_result called between the entries the guard evaluates
RecordGuardedResult ==
    \E pnl \in Pnls, now \in GuardTimes :
        /\ RLt(pnl, Zero) => consecutive_losses < MaxLosses
        /\ RecordTradeResultEffect(pnl, now)
        /\ last' = [op |-> "record_trade_result", pnl |-> pnl, now |-> now,
                    raised |-> FALSE]
        /\ UNCHANGED <<riskConfig, ledgerVars, sizerVars, loopVars, builderVars>>

InitGuard ==
    /\ DefaultLedger
    /\ DefaultRisk
    /\ DefaultSizer
    /\ NoLoop
    /\ BuilderInit
    /\ last = NoCall

NextGuard == EvaluateEntry \/ RecordGuardedResult

SpecGuard == InitGuard /\ [][NextGuard]_vars

\* C12: evaluate_entry reports the first failure in the order risk gate, stop,
\* size: risk_gate_blocked when can_trade is false (also with no stop or a
\* zero size), else no_stop_defined when neither stop_pct nor atr_pct is
\* supplied, else size_zero_or_below_min when krw_to_spend <= 0 (stop_pct <= 0
\* included), else allowed with a sizing whose krw_to_spend > 0; a decision is
\* allowed only if it carries a sizing.  Stated of the calls that return.
C12_ShortCircuitOrder ==
    (last.op = "evaluate_entry" /\ ~last.raised) =>
        LET pct     == RMul(RDiv(RSub(start_of_day_balance, last.equity_krw),
                                 start_of_day_balance), Q(100, 1))
            blocked == \/ RLe(max_daily_loss_pct, pct)
                       \/ cooldown_until # None /\ last.now < cooldown_until[1]
            nostop  == last.stop_pct = None /\ last.atr_pct = None
            stop    == IF last.stop_pct # None THEN last.stop_pct ELSE last.atr_pct
            d       == last.ret
        IN  /\ blocked => d = [allowed |-> FALSE, reason |-> "risk_gate_blocked",
                               sizing |-> None]
            /\ (~blocked /\ nostop) =>
                   d = [allowed |-> FALSE, reason |-> "no_stop_defined", sizing |-> None]
            /\ (~blocked /\ ~nostop) =>
                   LET sizing == size_from_stop_pct(last.equity_krw, stop, last.price)
                   IN  IF RLe(sizing.krw_to_spend, Zero) \/ RLe(stop, Zero)
                       THEN d = [allowed |-> FALSE, reason |-> "size_zero_or_below_min",
                                 sizing |-> None]
                       ELSE /\ d = [allowed |-> TRUE, reason |-> "ok", sizing |-> sizing]
                            /\ RLt(Zero, d.sizing.krw_to_spend)
            /\ d.allowed => d.sizing # None

\* C12 happens: inside a cooldown, on the anchor's date and with no daily
\* loss, a call that supplied no stop was denied with risk_gate_blocked
C12_Witness ==
    /\ last.op = "evaluate_entry" /\ ~last.raised
    /\ last.stop_pct = None /\ last.atr_pct = None
    /\ ~last.rolled
    /\ last.equity_krw = start_of_day_balance
    /\ cooldown_until # None /\ last.now < cooldown_until[1]
    /\ last.ret.reason = "risk_gate_blocked"

----------------------------------------------------------------------------
(* The ledger and the risk gate as functions of their state: the same code *)
(* as above, applied to a ledger record l or a RiskState record r, so that *)
(* the calls one candle makes can be applied one after the other.          *)

\* the PaperTrader of the current state
LedgerSnapshot ==
    [balance |-> balance, position |-> position, entry_price |-> entry_price,
     entry_notional |-> entry_notional, history |-> history]

\* PaperTrader.can_buy / can_sell on l
CanBuyOf(l)  == l.position = Zero /\ RLt(Zero, l.balance)
CanSellOf(l) == RLt(Zero, l.position)

\* PaperTrader.buy(price, timestamp, spend_krw) on l, for a price that is not 0
BuyOf(l, price, timestamp, spend_krw) ==
    LET s     == IF spend_krw = None THEN l.balance ELSE spend_krw
        spend == RMax(Zero, RMin(s, l.balance))
    IN  IF ~CanBuyOf(l) \/ RLe(spend, Zero)
        THEN l
        ELSE LET fee_paid == RMul(spend, fee)
                 qty      == RDiv(RSub(spend, fee_paid), price)
                 bal      == RSub(l.balance, spend)
             IN  [balance |-> bal, position |-> qty, entry_price |-> price,
                  entry_notional |-> spend,
                  history |-> Append(l.history,
                                 BuyRecord(price, timestamp, qty, spend, fee_paid, bal))]

\* PaperTrader.sell(price, timestamp, reason) on l
SellOf(l, price, timestamp, reason) ==
    IF ~CanSellOf(l)
    THEN l
    ELSE LET proceeds == RMul(RMul(l.position, price), RSub(One, fee))
             notional == IF l.entry_notional # None THEN l.entry_notional
                         ELSE RMul(l.position, l.entry_price)
             bal      == RAdd(l.balance, proceeds)
         IN  [balance |-> bal, position |-> Zero, entry_price |-> None,
              entry_notional |-> None,
              history |-> Append(l.history,
                             SellRecord(price, timestamp, RSub(proceeds, notional),
                                        bal, reason))]

\* PaperTrader.check_tp_sl(high, low, timestamp, tp, sl) on l
CheckTpSlOf(l, high, low, timestamp, tp, sl) ==
    IF ~CanSellOf(l)
    THEN l
    ELSE LET tpP  == RMul(l.entry_price, RAdd(One, tp))
             slP  == RMul(l.entry_price, RSub(One, sl))
             tpOn == RLe(tpP, high)
             slOn == RLe(low, slP)
         IN  IF tpOn /\ slOn THEN SellOf(l, slP, timestamp, "SL_TIE")
             ELSE IF tpOn THEN SellOf(l, tpP, timestamp, "TP")
             ELSE IF slOn THEN SellOf(l, slP, timestamp, "SL")
             ELSE l

\* RiskEngine.record_trade_result(pnl, now) on r
RecordOf(r, pnl, now) ==
    LET losses == IF RLt(pnl, Zero) THEN r.consecutive_losses + 1 ELSE 0
    IN  [r EXCEPT !.consecutive_losses = losses,
                  !.cooldown_until = IF losses >= max_consecutive_losses
                                     THEN <<now + cooldown_minutes>>
                                     ELSE r.cooldown_until]

\* the rollover of RiskEngine.can_trade(bal, now) on r (lines 43-45)
RolloverOf(r, bal, now) ==
    IF r.current_day = None \/ r.current_day # Date(now)
    THEN [start_of_day_balance |-> bal, current_day |-> Date(now),
          consecutive_losses |-> 0, cooldown_until |-> None]
    ELSE r

\* can_trade(bal, now) on r raises ZeroDivisionError
CanTradeRaisesOf(r, bal, now) == RolloverOf(r, bal, now).start_of_day_balance = Zero

\* the value can_trade(bal, now) returns on r when it does not raise
CanTradeOf(r, bal, now) ==
    LET r2 == RolloverOf(r, bal, now)
    IN  /\ ~daily_loss_exceeded(r2.start_of_day_balance, bal)
        /\ ~in_cooldown(r2.cooldown_until, now)

\* TradeGuard.evaluate_entry(equity_krw, now, price, stop_pct) on r raises
EvaluateEntryRaisesOf(r, equity_krw, now, price, stop_pct) ==
    \/ CanTradeRaisesOf(r, equity_krw, now)
    \/ /\ CanTradeOf(r, equity_krw, now)
       /\ SizeRaises(equity_krw, stop_pct, price)

\* the TradeDecision evaluate_entry(equity_krw, now, price, stop_pct) returns on r
EvaluateEntryOf(r, equity_krw, now, price, stop_pct) ==
    IF ~CanTradeOf(r, equity_krw, now)
    THEN TradeDecision(FALSE, "risk_gate_blocked", None)
    ELSE LET sizing == size_from_stop_pct(equity_krw, stop_pct, price)
         IN  IF RLe(sizing.krw_to_spend, Zero)
             THEN TradeDecision(FALSE, "size_zero_or_below_min", None)
             ELSE TradeDecision(TRUE, "ok", sizing)

\* the last SELL record of a history, or None (the "next(... reversed ...)")
LastSellOf(h) ==
    LET sells == {i \in 1..Len(h) : h[i].type = "SELL"}
    IN  IF sells = {} THEN None
        ELSE h[CHOOSE i \in sells : \A j \in sells : j <= i]

----------------------------------------------------------------------------
(* The decision loop: backtest_replay.main (lines 90-140) and              *)
(* RealtimePaperBot.on_candle_close, one closed candle at a time.          *)
(*                                                                         *)
(* build_feature_row / _make_realtime_features and model.predict are       *)
(* outside the model: a candle comes with proba, the score the model       *)
(* gives, or None when no feature row is returned (fewer than 200 candles  *)
(* or an empty feature frame).  Both programs build the ledger with fee    *)
(* 0.001; the loop is explored here with fee 0, and with a risk gate of 1  *)
(* or 3 consecutive losses, which keeps every amount a small rational.     *)

\* --entry-threshold (default) and ENTRY_THRESHOLD
entry_threshold == Q(3, 5)

\* --tp / --sl (defaults) and TP_PCT / SL_PCT
TP_PCT == Q(15, 1000)
SL_PCT == Q(9, 1000)

\* MARKETS[0]
Market == "KRW-BTC"

\* --initial-balance (default) and the balance of the bot's PaperTrader
LoopBalance == Q(1000000, 1)

\* the fee rate of the ledger the loop is explored with
LoopFee == Zero

\* candle times: 23:50 and 23:55 of day 0, 00:00 of day 1
LoopTimes == {1430, 1435, 1440}

\* <<high, low>> of a candle that closes at 100: inside both thresholds of an
\* entry at 100, above the take-profit, below the stop-loss, beyond both
CandleShapes == {<<Q(100, 1), Q(100, 1)>>, <<Q(102, 1), Q(100, 1)>>,
                 <<Q(100, 1), Q(99, 1)>>, <<Q(102, 1), Q(99, 1)>>}
CandleClose == Q(100, 1)

\* what the feature row and the model give: no row, 0.599999, 0.60
Probas == {None, Q(599999, 1000000), Q(3, 5)}

\* the fields of a Candle the loop reads
Candle(time, high, low, close) ==
    [time |-> time, high |-> high, low |-> low, close |-> close]

\* a step 1 that records a result whenever the ledger cannot sell after it
LoopExit_RecordsWhenFlat(l, r, managed, candle, tp, sl) ==
    LET l1        == IF managed /\ CanSellOf(l)
                     THEN CheckTpSlOf(l, candle.high, candle.low, candle.time, tp, sl)
                     ELSE l
        last_sell == LastSellOf(l1.history)
        rec       == ~CanSellOf(l1) /\ last_sell # None
    IN  [ledger |-> l1,
         risk |-> IF rec THEN RecordOf(r, last_sell.pnl, candle.time) ELSE r,
         closed |-> managed /\ CanSellOf(l) /\ ~CanSellOf(l1),
         recorded |-> IF rec THEN <<<<last_sell.pnl, candle.time>>>> ELSE <<>>]

\* step 1 (backtest_replay.py 103-108, realtime_trader.py 112-117): the exit
\* check, and record_trade_result when it closed the position; managed is
\* "open_market == market" in the bot and True in the replay
LoopExit(l, r, managed, candle, tp, sl) ==
    IF managed /\ CanSellOf(l)
    THEN LET l1        == CheckTpSlOf(l, candle.high, candle.low, candle.time, tp, sl)
             closed    == ~CanSellOf(l1)
             last_sell == LastSellOf(l1.history)
             rec       == closed /\ last_sell # None
         IN  [ledger |-> l1,
              risk |-> IF rec THEN RecordOf(r, last_sell.pnl, candle.time) ELSE r,
              closed |-> closed,
              recorded |-> IF rec THEN <<<<last_sell.pnl, candle.time>>>> ELSE <<>>]
    ELSE [ledger |-> l, risk |-> r, closed |-> FALSE, recorded |-> <<>>]

\* a step 2 that enters only above the threshold
LoopEntry_AboveThreshold(l, r, candle, proba, stop_pct) ==
    IF ~CanBuyOf(l) \/ proba = None \/ RLe(proba, entry_threshold)
    THEN [ledger |-> l, risk |-> r, asked |-> FALSE, decision |-> None,
          bought |-> FALSE, raised |-> FALSE]
    ELSE LET d == EvaluateEntryOf(r, l.balance, candle.time, candle.close, stop_pct)
             b == IF d.allowed /\ d.sizing # None
                  THEN BuyOf(l, candle.close, candle.time, d.sizing.krw_to_spend)
                  ELSE l
         IN  [ledger |-> b, risk |-> RolloverOf(r, l.balance, candle.time),
              asked |-> TRUE, decision |-> d,
              bought |-> Len(b.history) > Len(l.history), raised |-> FALSE]

\* step 2 (backtest_replay.py 110-135, realtime_trader.py 123-141): when the
\* ledger can buy, a feature row exists and proba >= entry_threshold, ask the
\* guard and buy what it sized
LoopEntry(l, r, candle, proba, stop_pct) ==
    IF ~CanBuyOf(l) \/ proba = None \/ RLt(proba, entry_threshold)
    THEN [ledger |-> l, risk |-> r, asked |-> FALSE, decision |-> None,
          bought |-> FALSE, raised |-> FALSE]
    ELSE IF EvaluateEntryRaisesOf(r, l.balance, candle.time, candle.close, stop_pct)
    THEN [ledger |-> l, risk |-> RolloverOf(r, l.balance, candle.time),
          asked |-> TRUE, decision |-> None, bought |-> FALSE, raised |-> TRUE]
    ELSE LET d == EvaluateEntryOf(r, l.balance, candle.time, candle.close, stop_pct)
             b == IF d.allowed /\ d.sizing # None
                  THEN BuyOf(l, candle.close, candle.time, d.sizing.krw_to_spend)
                  ELSE l
         IN  [ledger |-> b, risk |-> RolloverOf(r, l.balance, candle.time),
              asked |-> TRUE, decision |-> d,
              bought |-> Len(b.history) > Len(l.history), raised |-> FALSE]

\* step 3 of the replay (lines 137-139): balance, plus the position at the close
MarkedEquity(l, close) ==
    IF CanSellOf(l)
    THEN RAdd(l.balance, RMul(RMul(l.position, close), RSub(One, fee)))
    ELSE l.balance

\* the one element of a singleton: The({f(v) : v \in {e}}) is f(e), with e
\* computed once
The(S) == CHOOSE v \in S : TRUE

\* a candle whose entry step runs before its exit step
CandleOutcome_EntryFirst(l, r, managed, candle, proba, tp, sl) ==
    The({The({[ledger |-> x.ledger, risk |-> x.risk, closed |-> x.closed,
               recorded |-> x.recorded, flat |-> CanBuyOf(l), asked |-> e.asked,
               decision |-> e.decision, bought |-> e.bought, raised |-> e.raised] :
              x \in {LoopExit(e.ledger, e.risk, managed \/ e.bought, candle, tp, sl)}}) :
         e \in {LoopEntry(l, r, candle, proba, sl)}})

\* what one candle does to the ledger l and the RiskState r: step 1, then
\* step 2 on what step 1 left
CandleOutcome(l, r, managed, candle, proba, tp, sl) ==
    The({The({[ledger |-> e.ledger, risk |-> e.risk, closed |-> x.closed,
               recorded |-> x.recorded, flat |-> CanBuyOf(x.ledger), asked |-> e.asked,
               decision |-> e.decision, bought |-> e.bought, raised |-> e.raised] :
              e \in {LoopEntry(x.ledger, x.risk, candle, proba, sl)}}) :
         x \in {LoopExit(l, r, managed, candle, tp, sl)}})

\* the ledger and the RiskState become l and r
SetLedger(l) ==
    /\ balance' = l.balance
    /\ position' = l.position
    /\ entry_price' = l.entry_price
    /\ entry_notional' = l.entry_notional
    /\ history' = l.history
    /\ UNCHANGED fee

SetRisk(r) ==
    /\ start_of_day_balance' = r.start_of_day_balance
    /\ current_day' = r.current_day
    /\ consecutive_losses' = r.consecutive_losses
    /\ cooldown_until' = r.cooldown_until
    /\ UNCHANGED riskConfig

\* the time of the candle processed before, or -1: candles come in time order
PrevTime == IF last.op = "candle" THEN last.time ELSE -1

\* what is kept of a candle's processing: the candle, the score when the model
\* was asked for one, whether the ledger was Long on entry and Flat after
\* step 1, and what steps 1 and 2 did
CandleCall(candle, proba, o) ==
    [op |-> "candle", time |-> candle.time, high |-> candle.high, low |-> candle.low,
     close |-> candle.close, proba |-> IF o.flat THEN proba ELSE None,
     long |-> can_sell, closed |-> o.closed, recorded |-> o.recorded,
     flat |-> o.flat, asked |-> o.asked, decision |-> o.decision,
     bought |-> o.bought, raised |-> o.raised]

\* one iteration of the loop of backtest_replay.main (lines 90-140)
ReplayCandle ==
    /\ mode = "replay"
    /\ ~last.raised
    /\ Len(history) < MaxHist
    /\ \E time \in LoopTimes, shape \in CandleShapes, proba \in Probas :
        /\ time > PrevTime
        /\ \E candle \in {Candle(time, shape[1], shape[2], CandleClose)} :
           \E o \in {CandleOutcome(LedgerSnapshot, RiskSnapshot, TRUE, candle, proba,
                                   TP_PCT, SL_PCT)} :
            /\ SetLedger(o.ledger)
            /\ SetRisk(o.risk)
            /\ equity_curve' = IF o.raised THEN equity_curve
                               ELSE Append(equity_curve, MarkedEquity(o.ledger, candle.close))
            /\ last' = CandleCall(candle, proba, o)
            /\ UNCHANGED <<sizerVars, mode, open_market, open_tp, open_sl, builderVars>>

\* a bot that never notes the market it entered
Entered_Never(o) == o.asked /\ ~o.asked

\* the bot reached lines 141-144: the guard allowed the entry and buy returned
Entered(o) == o.asked /\ ~o.raised /\ o.decision.allowed /\ o.decision.sizing # None

\* RealtimePaperBot.on_candle_close(market, candle)
OnCandleClose ==
    /\ mode = "live"
    /\ ~last.raised
    /\ Len(history) < MaxHist
    /\ \E time \in LoopTimes, shape \in CandleShapes, proba \in Probas :
        /\ time > PrevTime
        /\ \E candle \in {Candle(time, shape[1], shape[2], CandleClose)} :
           \E o \in {CandleOutcome(LedgerSnapshot, RiskSnapshot, open_market = Market,
                                   candle, proba,
                                   IF open_tp # None THEN open_tp ELSE TP_PCT,
                                   IF open_sl # None THEN open_sl ELSE SL_PCT)} :
            /\ SetLedger(o.ledger)
            /\ SetRisk(o.risk)
            /\ open_market' = IF Entered(o) THEN Market
                              ELSE IF o.closed THEN None ELSE open_market
            /\ open_tp' = IF Entered(o) THEN TP_PCT
                          ELSE IF o.closed THEN None ELSE open_tp
            /\ open_sl' = IF Entered(o) THEN SL_PCT
                          ELSE IF o.closed THEN None ELSE open_sl
            /\ last' = CandleCall(candle, proba, o)
            /\ UNCHANGED <<sizerVars, mode, equity_curve, builderVars>>

\* main up to its loop (lines 82-88) and RealtimePaperBot.__init__
InitLoop ==
    /\ balance = LoopBalance
    /\ position = Zero
    /\ entry_price = None
    /\ entry_notional = None
    /\ fee = LoopFee
    /\ history = <<>>
    /\ \E losses \in MaxConsecutiveLossesOpts : RiskInit(Q(3, 1), losses, 60)
    /\ DefaultSizer
    /\ mode \in {"replay", "live"}
    /\ equity_curve = <<>>
    /\ open_market = None
    /\ open_tp = None
    /\ open_sl = None
    /\ BuilderInit
    /\ last = NoCall

NextLoop == ReplayCandle \/ OnCandleClose

SpecLoop == InitLoop /\ [][NextLoop]_vars

----------------------------------------------------------------------------
(* Claims about the decision loop, checked under SpecLoop.                 *)

\* the records a step appended to the history
NewRecords == SubSeq(history', Len(history) + 1, Len(history'))

\* C13: in both loops record_trade_result is called exactly once for every
\* SELL record a candle appends, with that SELL's pnl and the candle's time,
\* and is not called on a candle that closed no position.
C13_RecordOncePerSell ==
    [][last'.op = "candle" =>
          LET sells == {i \in 1..Len(NewRecords) : NewRecords[i].type = "SELL"}
          IN  /\ SubSeq(history', 1, Len(history)) = history
              /\ Len(last'.recorded) = Cardinality(sells)
              /\ \A i \in sells :
                    /\ NewRecords[i].time = last'.time
                    /\ last'.recorded = <<<<NewRecords[i].pnl, last'.time>>>>
              /\ last'.closed <=> sells # {}
              /\ ~Long => sells = {}]_vars

\* C13 happens: a candle closed the position at a loss, recorded that loss
\* once, and the streak stands at 1
C13_Witness ==
    /\ last.op = "candle" /\ last.long /\ last.closed
    /\ Len(last.recorded) = 1
    /\ LastSellOf(history) # None
    /\ last.recorded[1] = <<LastSellOf(history).pnl, last.time>>
    /\ RLt(last.recorded[1][1], Zero)
    /\ consecutive_losses = 1

\* C14: when step 1 of a candle closes a losing trade whose record brings
\* consecutive_losses to max_consecutive_losses and sets a cooldown, step 2 of
\* that candle buys nothing, and the guard, when asked, answers
\* risk_gate_blocked; for every candle time.
C14_FreshCooldownBlocksEntry ==
    [][(/\ last'.op = "candle"
        /\ last'.closed
        /\ Len(last'.recorded) = 1
        /\ RLt(last'.recorded[1][1], Zero)
        /\ consecutive_losses + 1 >= max_consecutive_losses)
       => /\ ~last'.bought
          /\ last'.asked => last'.decision.reason = "risk_gate_blocked"]_vars

\* C15: one candle never both closes a position in step 1 (a SELL appended)
\* and opens one in step 2 (a BUY appended).
C15_ExitAndEntryExclusive ==
    [][last'.op = "candle" =>
          ~(\E i, j \in 1..Len(NewRecords) :
                NewRecords[i].type = "SELL" /\ NewRecords[j].type = "BUY")]_vars

\* C16: a position opened in a candle is not exited in that candle: no candle
\* appends a BUY and then a SELL, a candle that bought leaves the ledger Long
\* on that BUY whatever its high and low, and the SELL a candle appends closes
\* a BUY of an earlier candle.
C16_NoExitInEntryCandle ==
    [][last'.op = "candle" =>
          /\ ~(\E i, j \in 1..Len(NewRecords) :
                  i < j /\ NewRecords[i].type = "BUY" /\ NewRecords[j].type = "SELL")
          /\ last'.bought =>
                /\ RLt(Zero, position')
                /\ history'[Len(history')].type = "BUY"
                /\ history'[Len(history')].time = last'.time
          /\ last'.closed =>
                /\ NewRecords[1].type = "SELL"
                /\ NewRecords[1].time = last'.time
                /\ history[Len(history)].type = "BUY"
                /\ history[Len(history)].time < last'.time]_vars

\* C16 happens: a candle whose low is under the stop-loss price of the entry
\* it made at its close left that position open
C16_Witness ==
    /\ last.op = "candle" /\ last.bought
    /\ Long
    /\ entry_price = last.close
    /\ RLe(last.low, RMul(entry_price, RSub(One, SL_PCT)))
    /\ LastRecord.type = "BUY" /\ LastRecord.time = last.time

\* C17: on a candle whose step 2 finds the ledger able to buy and a feature
\* row, a BUY is made exactly when proba >= entry_threshold and the guard
\* allows the entry: 0.60 enters, 0.599999 does not; from a balance of
\* 1,000,000 with no trade made yet the entry is allowed, for 100,000.
C17_EntryAtThreshold ==
    (last.op = "candle" /\ last.flat /\ last.proba # None /\ ~last.raised) =>
        /\ RLt(last.proba, Q(3, 5)) => (~last.asked /\ ~last.bought)
        /\ RLe(Q(3, 5), last.proba) =>
              /\ last.asked
              /\ last.bought <=> last.decision.allowed
              /\ (~last.long /\ Len(history) <= 1) =>
                    /\ last.bought
                    /\ history[1].spend_krw = Q(100000, 1)
                    /\ balance = Q(900000, 1)

\* C17 happens: a first candle scored exactly 0.60 bought for 100,000
C17_Witness ==
    /\ last.op = "candle" /\ last.flat /\ ~last.long
    /\ last.proba = Q(3, 5)
    /\ last.bought
    /\ Len(history) = 1
    /\ history[1].type = "BUY" /\ history[1].spend_krw = Q(100000, 1)

----------------------------------------------------------------------------
(* CandleBuilder5m (realtime_trader.py 35-58), for one market.  current is  *)
(* the in-progress candle of the market, None before its first tick.  A     *)
(* tick time is tms_ms, in milliseconds; a candle time is in minutes.       *)

MaxTicks == 4

\* msg["tp"], msg["tv"] and msg["tms"] of the trade messages: two ticks of
\* the first 5-minute bucket and one of the second, which may arrive in any
\* order
TickPrices == {Q(99, 1), Q(100, 1), Q(101, 1)}
TickVols   == {One}
TickTimes  == {0, 299999, 300000}

\* datetime.fromtimestamp(tms_ms / 1000, tz=utc) then _bucket (lines 39-42):
\* the minute of the hour is floored to a multiple of 5, seconds and
\* microseconds are dropped, the hour and the date are kept
Bucket(tms_ms) ==
    LET minutes == (tms_ms \div 1000) \div 60
        minute  == minutes % 60
        m       == (minute \div 5) * 5
    IN  (minutes - minute) + m

\* line 51: the candle a tick opens
NewCandle(bucket, price, vol) ==
    [time |-> bucket, open |-> price, high |-> price, low |-> price,
     close |-> price, volume |-> vol]

\* a variant that keeps the low of the first tick
ExtendCandle_KeepsLow(cur, price, vol) ==
    [cur EXCEPT !.high = RMax(cur.high, price),
                !.close = price,
                !.volume = RAdd(cur.volume, vol)]

\* lines 54-57: a tick of the bucket of the in-progress candle
ExtendCandle(cur, price, vol) ==
    [cur EXCEPT !.high = RMax(cur.high, price),
                !.low = RMin(cur.low, price),
                !.close = price,
                !.volume = RAdd(cur.volume, vol)]

\* a builder that starts a candle at every tick
StartsCandle_Always(cur, bucket) == cur = None \/ cur.time # bucket \/ cur.time = bucket

\* line 49: the tick starts a candle
StartsCandle(cur, bucket) == cur = None \/ cur.time # bucket

\* what the ticks so far have produced: their number, the times of the
\* closed candles returned so far, and the prices of the ticks of the
\* in-progress candle
Ticks   == IF last.op = "update_trade" THEN last.n ELSE 0
Emitted == IF last.op = "update_trade" THEN last.emitted ELSE <<>>
Run     == IF last.op = "update_trade" THEN last.run ELSE <<>>

\* update_trade (lines 44-58); handle_trade_message (lines 146-154) forwards
\* only closed
UpdateTrade ==
    /\ Ticks < MaxTicks
    /\ \E price \in TickPrices, vol \in TickVols, tms_ms \in TickTimes :
        \E bucket \in {Bucket(tms_ms)} :
            /\ current' = IF StartsCandle(current, bucket)
                          THEN NewCandle(bucket, price, vol)
                          ELSE ExtendCandle(current, price, vol)
            /\ last' = [op |-> "update_trade", price |-> price, vol |-> vol,
                        tms_ms |-> tms_ms, bucket |-> bucket,
                        closed |-> IF StartsCandle(current, bucket)
                                   THEN current ELSE None,
                        closed_run |-> IF StartsCandle(current, bucket)
                                       THEN Run ELSE <<>>,
                        run |-> IF StartsCandle(current, bucket)
                                THEN <<price>> ELSE Append(Run, price),
                        emitted |-> IF StartsCandle(current, bucket) /\ current # None
                                    THEN Append(Emitted, current.time)
                                    ELSE Emitted,
                        n |-> Ticks + 1, raised |-> FALSE]
            /\ UNCHANGED <<ledgerVars, riskVars, sizerVars, loopVars>>

InitBuilder ==
    /\ DefaultLedger
    /\ DefaultRisk
    /\ DefaultSizer
    /\ NoLoop
    /\ BuilderInit
    /\ last = NoCall

NextBuilder == UpdateTrade

SpecBuilder == InitBuilder /\ [][NextBuilder]_vars

----------------------------------------------------------------------------
(* Claims about the candle builder, checked under SpecBuilder.             *)

\* C18: the closed candles update_trade returns, in the order it returns
\* them, have strictly increasing times, for ticks in any order.
C18_ClosedTimesIncrease ==
    last.op = "update_trade" =>
        \A i \in 1..Len(last.emitted) - 1 : last.emitted[i] < last.emitted[i + 1]

\* the highest and the lowest price of a non-empty sequence of prices
RunHigh(run) == CHOOSE p \in {run[i] : i \in 1..Len(run)} :
                    \A i \in 1..Len(run) : RLe(run[i], p)
RunLow(run)  == CHOOSE p \in {run[i] : i \in 1..Len(run)} :
                    \A i \in 1..Len(run) : RLe(p, run[i])

\* candle c is the candle of the ticks whose prices are run
CandleOfRun(c, run) ==
    /\ Len(run) >= 1
    /\ c.open = run[1]
    /\ c.close = run[Len(run)]
    /\ c.high = RunHigh(run)
    /\ c.low = RunLow(run)
    /\ RLe(c.low, c.open) /\ RLe(c.open, c.high)
    /\ RLe(c.low, c.close) /\ RLe(c.close, c.high)

\* C19: the in-progress candle after each tick and each closed candle have
\* low <= open <= high and low <= close <= high, open the price of the first
\* tick of the run of ticks that built it, close the price of the last, high
\* and low the highest and the lowest of them.
C19_OhlcOrdered ==
    last.op = "update_trade" =>
        /\ current # None
        /\ CandleOfRun(current, last.run)
        /\ last.closed # None => CandleOfRun(last.closed, last.closed_run)

\* C19 happens: a closed candle of three ticks whose open is strictly
\* between its low and its high, and whose close is its low
C19_Witness ==
    /\ last.op = "update_trade"
    /\ last.closed # None
    /\ Len(last.closed_run) = 3
    /\ RLt(last.closed.low, last.closed.open)
    /\ RLt(last.closed.open, last.closed.high)
    /\ last.closed.close = last.closed.low

----------------------------------------------------------------------------
(* Claim about errors, checked under SpecRisk (it fails alike under         *)
(* SpecLedger, by a buy at price 0, and under SpecGuard).                   *)

\* C20: no operation of the core raises: every call returns, with a denied
\* decision or a no-op where it cannot act.
C20_NoOperationRaises ==
    last.op # "none" => ~last.raised

----------------------------------------------------------------------------
(* The two loops compared, checked under SpecLoop.                          *)

\* C21: on_candle_close takes the ledger and the risk gate through the steps
\* the replay loop takes: from the same ledger and RiskState, the same candle
\* and the same score, a step of the bot leaves the ledger (its history
\* included) and the RiskState that an iteration of the replay loop leaves,
\* and raises when it raises.
C21_LiveStepsAsReplay ==
    [][(mode = "live" /\ last'.op = "candle") =>
          \E candle \in {Candle(last'.time, last'.high, last'.low, last'.close)} :
          \E o \in {CandleOutcome(LedgerSnapshot, RiskSnapshot, TRUE, candle,
                                  last'.proba, TP_PCT, SL_PCT)} :
              /\ SetLedger(o.ledger)
              /\ SetRisk(o.risk)
              /\ last'.closed = o.closed
              /\ last'.recorded = o.recorded
              /\ last'.bought = o.bought
              /\ last'.raised = o.raised]_vars

\* C21 happens: the bot closed a position at a loss and entered again in the
\* same candle, after an earlier entry
C21_Witness ==
    /\ mode = "live"
    /\ last.op = "candle" /\ last.closed /\ last.bought
    /\ Len(history) = 3
    /\ history[1].type = "BUY" /\ history[2].type = "SELL" /\ history[3].type = "BUY"
    /\ RLt(history[2].pnl, Zero)
    /\ open_market = Market

----------------------------------------------------------------------------
(* The ledger in floating point.  PaperTrader computes in Python floats:    *)
(* every product, quotient, sum and difference is rounded to the nearest    *)
(* binary floating-point number, ties to even.  The amounts above are exact *)
(* rationals; here each operation of buy and sell is rounded, to a          *)
(* significand of FloatBits bits (a Python float has 53), so that what      *)
(* rounding does to a buy followed by a sell can be explored.               *)

FloatBits == 8

RECURSIVE Pow2(_)
Pow2(k) == IF k = 0 THEN 1 ELSE 2 * Pow2(k - 1)

\* n / d >= 0 brought into [2^(FloatBits-1), 2^FloatBits) by a power of two:
\* <<n', d', k>> with n/d = (n'/d') * 2^k
RECURSIVE Normalize(_, _, _)
Normalize(n, d, k) ==
    IF n >= Pow2(FloatBits) * d THEN Normalize(n, 2 * d, k + 1)
    ELSE IF n < Pow2(FloatBits - 1) * d THEN Normalize(2 * n, d, k - 1)
    ELSE <<n, d, k>>

\* n / d rounded to the nearest integer, ties to even
RoundHalfEven(n, d) ==
    LET fl  == n \div d
        rem == n % d
    IN  IF 2 * rem > d \/ (2 * rem = d /\ fl % 2 = 1) THEN fl + 1 ELSE fl

\* the float nearest to the rational q
Fl(q) ==
    IF q[1] = 0 THEN Zero
    ELSE LET t == The({Normalize(Abs(q[1]), q[2], 0)})
             m == RoundHalfEven(t[1], t[2])
             v == IF t[3] >= 0 THEN Q(m * Pow2(t[3]), 1) ELSE Q(m, Pow2(-t[3]))
         IN  IF q[1] < 0 THEN RNeg(v) ELSE v

\* float +, -, *, /
FAdd(a, b) == Fl(RAdd(a, b))
FSub(a, b) == Fl(RSub(a, b))
FMul(a, b) == Fl(RMul(a, b))
FDiv(a, b) == Fl(RDiv(a, b))

\* PaperTrader.buy (lines 19-46) on l in floats, for a price that is not 0
FloatBuyOf(l, price, timestamp, spend_krw) ==
    LET s     == IF spend_krw = None THEN l.balance ELSE spend_krw
        spend == RMax(Zero, RMin(s, l.balance))
    IN  IF ~CanBuyOf(l) \/ RLe(spend, Zero)
        THEN l
        ELSE LET fee_paid == FMul(spend, fee)
                 cost     == FSub(spend, fee_paid)
                 qty      == FDiv(cost, price)
                 bal      == FSub(l.balance, spend)
             IN  [balance |-> bal, position |-> qty, entry_price |-> price,
                  entry_notional |-> spend,
                  history |-> Append(l.history,
                                 BuyRecord(price, timestamp, qty, spend, fee_paid, bal))]

\* PaperTrader.sell (lines 48-59) on l in floats
FloatSellOf(l, price, timestamp, reason) ==
    IF ~CanSellOf(l)
    THEN l
    ELSE LET proceeds == FMul(FMul(l.position, price), FSub(One, fee))
             notional == IF l.entry_notional # None THEN l.entry_notional
                         ELSE FMul(l.position, l.entry_price)
             bal      == FAdd(l.balance, proceeds)
         IN  [balance |-> bal, position |-> Zero, entry_price |-> None,
              entry_notional |-> None,
              history |-> Append(l.history,
                             SellRecord(price, timestamp, FSub(proceeds, notional),
                                        bal, reason))]

\* initial_balance, price and spend_krw: floats of at most FloatBits bits
FloatBalances == {Q(64, 1), Q(100, 1)}
FloatPrices   == {Q(5, 1), Q(7, 1), Q(11, 1), Q(13, 1)}
FloatSpends   == {None, Q(15, 1), Q(29, 1), Q(30, 1)}

\* buy(price, timestamp, spend_krw)
FloatBuy ==
    /\ Len(history) < MaxHist
    /\ \E price \in FloatPrices, spend_krw \in FloatSpends :
        \E l \in {FloatBuyOf(LedgerSnapshot, price, Len(history) + 1, spend_krw)} :
            /\ SetLedger(l)
            /\ last' = [op |-> "buy", price |-> price, spend_krw |-> spend_krw,
                        before |-> balance,
                        done |-> Len(l.history) > Len(history), raised |-> FALSE]
            /\ UNCHANGED <<riskVars, sizerVars, loopVars, builderVars>>

\* sell(price, timestamp)
FloatSell ==
    /\ Len(history) < MaxHist
    /\ \E price \in FloatPrices :
        \E l \in {FloatSellOf(LedgerSnapshot, price, Len(history) + 1, "EXIT")} :
            /\ SetLedger(l)
            /\ last' = [op |-> "sell", price |-> price,
                        done |-> Len(l.history) > Len(history),
                        after_buy |-> last.op = "buy" /\ last.done,
                        buy_price |-> IF last.op = "buy" THEN last.price ELSE None,
                        before_buy |-> IF last.op = "buy" THEN last.before ELSE None,
                        raised |-> FALSE]
            /\ UNCHANGED <<riskVars, sizerVars, loopVars, builderVars>>

\* PaperTrader(initial_balance, fee=0.0)
InitFloat ==
    /\ balance \in FloatBalances
    /\ position = Zero
    /\ entry_price = None
    /\ entry_notional = None
    /\ fee = Zero
    /\ history = <<>>
    /\ DefaultRisk
    /\ DefaultSizer
    /\ NoLoop
    /\ BuilderInit
    /\ last = NoCall

NextFloat == FloatBuy \/ FloatSell

SpecFloat == InitFloat /\ [][NextFloat]_vars

\* C22: with fee 0, a buy that went through followed at once by a sell at
\* the price of the buy records pnl = 0 and leaves the balance it found
\* before the buy.
C22_RoundTripRestores ==
    (/\ last.op = "sell" /\ last.done /\ last.after_buy
     /\ last.price = last.buy_price
     /\ fee = Zero)
    => /\ LastRecord.pnl = Zero
       /\ balance = last.before_buy

----------------------------------------------------------------------------
(* max_drawdown_pct (backtest_replay.py 50-61), applied to equity curves.   *)

MaxCurve == 5

\* the equities of a curve
CurveValues == {Zero, Q(80, 1), Q(90, 1), Q(95, 1), Q(100, 1), Q(120, 1)}

\* the curves main may pass: at most MaxCurve equities
Curves == UNION {[1..n -> CurveValues] : n \in 0..MaxCurve}

\* the highest equity of a non-empty curve
GlobalPeak(curve) ==
    CHOOSE p \in {curve[i] : i \in 1..Len(curve)} :
        \A i \in 1..Len(curve) : RLe(curve[i], p)

\* line 58: the drawdown of e under peak, in percent
Drawdown(peak, e) ==
    IF RLt(Zero, peak) THEN RMul(RDiv(RSub(peak, e), peak), Q(100, 1)) ELSE Zero

\* a drawdown measured against the highest equity of the whole curve
RECURSIVE DrawdownLoop_GlobalPeak(_, _, _, _)
DrawdownLoop_GlobalPeak(curve, i, peak, mdd) ==
    IF i > Len(curve) THEN mdd
    ELSE \* the peak is the same at every index
         LET dd == The({Drawdown(GlobalPeak(curve), curve[i])})
         IN  DrawdownLoop_GlobalPeak(curve, i + 1, peak, IF RLt(mdd, dd) THEN dd ELSE mdd)

\* lines 55-60: the loop from index i on, with the peak and the mdd so far
RECURSIVE DrawdownLoop(_, _, _, _)
DrawdownLoop(curve, i, peak, mdd) ==
    IF i > Len(curve) THEN mdd
    ELSE LET e     == curve[i]
             peak2 == IF RLt(peak, e) THEN e ELSE peak
             dd    == The({Drawdown(peak2, e)})
         IN  DrawdownLoop(curve, i + 1, peak2, IF RLt(mdd, dd) THEN dd ELSE mdd)

\* max_drawdown_pct(equity_curve)
max_drawdown_pct(curve) ==
    IF curve = <<>> THEN Zero
    ELSE DrawdownLoop(curve, 1, curve[1], Zero)

\* mdd = max_drawdown_pct(equity_curve) (line 148)
MaxDrawdownPct ==
    /\ last.op = "none"
    /\ \E mdd \in {max_drawdown_pct(equity_curve)} :
        last' = [op |-> "max_drawdown_pct", ret |-> mdd, raised |-> FALSE]
    /\ UNCHANGED <<ledgerVars, riskVars, sizerVars, loopVars, builderVars>>

\* the replay has ended with some equity curve
InitDrawdown ==
    /\ DefaultLedger
    /\ DefaultRisk
    /\ DefaultSizer
    /\ mode = "replay"
    /\ equity_curve \in Curves
    /\ open_market = None
    /\ open_tp = None
    /\ open_sl = None
    /\ BuilderInit
    /\ last = NoCall

NextDrawdown == MaxDrawdownPct

SpecDrawdown == InitDrawdown /\ [][NextDrawdown]_vars

\* the highest of the first i equities of curve
RunningPeak(curve, i) ==
    CHOOSE p \in {curve[j] : j \in 1..i} : \A j \in 1..i : RLe(curve[j], p)

\* the drawdowns of a curve whose first equity is positive, index by index,
\* each against its running peak
RunningDrawdowns(curve) ==
    {RMul(RDiv(RSub(RunningPeak(curve, i), curve[i]), RunningPeak(curve, i)), Q(100, 1)) :
        i \in 1..Len(curve)}

\* C23: max_drawdown_pct is the highest, over the indices i, of
\* (runningPeak_i - e_i) / runningPeak_i * 100, runningPeak_i the highest of
\* e_0..e_i; it is 0 for an empty and for a non-decreasing curve, and 20 for
\* [100, 90, 95, 80, 120].
C23_RunningPeakDrawdown ==
    last.op = "max_drawdown_pct" =>
        /\ (equity_curve # <<>> /\ RLt(Zero, equity_curve[1])) =>
              /\ last.ret \in RunningDrawdowns(equity_curve)
              /\ \A dd \in RunningDrawdowns(equity_curve) : RLe(dd, last.ret)
        /\ equity_curve = <<>> => last.ret = Zero
        /\ (\A i \in 1..Len(equity_curve) - 1 :
               RLe(equity_curve[i], equity_curve[i + 1])) => last.ret = Zero
        /\ equity_curve = <<Q(100, 1), Q(90, 1), Q(95, 1), Q(80, 1), Q(120, 1)>>
              => last.ret = Q(20, 1)

\* C23 happens: the curve [100, 90, 95, 80, 120] gave 20
C23_Witness ==
    /\ last.op = "max_drawdown_pct"
    /\ equity_curve = <<Q(100, 1), Q(90, 1), Q(95, 1), Q(80, 1), Q(120, 1)>>
    /\ last.ret = Q(20, 1)

----------------------------------------------------------------------------
(* Claim about what the guard does to the risk gate, checked under          *)
(* SpecGuard.                                                               *)

\* C24: evaluate_entry leaves current_day, start_of_day_balance,
\* consecutive_losses and cooldown_until as it found them; only
\* record_trade_result changes them.
C24_GuardLeavesRiskState ==
    [][UNCHANGED riskState \/ last'.op = "record_trade_result"]_vars

----------------------------------------------------------------------------
(* Claim about when the builder closes a candle, checked under SpecBuilder. *)

\* C25: update_trade returns a closed candle only on a tick whose bucket
\* differs from that of the in-progress candle, and then returns that
\* candle as it stood; the first tick and a tick of the same bucket return
\* none; after every tick there is one in-progress candle, of the bucket of
\* the tick, and it is not the candle returned: it is returned, if ever, by a
\* later tick.
C25_ClosedOnBucketChange ==
    [][last'.op = "update_trade" =>
          /\ current = None => last'.closed = None
          /\ (current # None /\ current.time = last'.bucket) =>
                /\ last'.closed = None
                /\ current'.open = current.open
          /\ (current # None /\ current.time # last'.bucket) => last'.closed = current
          /\ last'.closed # None => last'.closed.time # last'.bucket
          /\ current' # None
          /\ current'.time = last'.bucket
          /\ current'.close = last'.price
          /\ last'.emitted = IF last'.closed # None
                             THEN Append(Emitted, last'.closed.time)
                             ELSE Emitted
          /\ Len(last'.emitted) < last'.n]_vars

\* C25 happens: two ticks of one bucket returned nothing, a tick of the next
\* bucket returned their candle, and a last tick extended the new candle,
\* which stays in progress
C25_Witness ==
    /\ last.op = "update_trade"
    /\ last.n = 4
    /\ last.closed = None
    /\ last.emitted = <<0>>
    /\ current.time = 5
    /\ Len(last.run) = 2

----------------------------------------------------------------------------
(* Claims about the trade history and the balance, checked under            *)
(* SpecLedger.                                                              *)

\* the number of records of type t in the history h
CountOf(h, t) == Cardinality({i \in 1..Len(h) : h[i].type = t})

\* h is BUY, SELL, BUY, ... from its first record on
Alternating(h) ==
    \A i \in 1..Len(h) : h[i].type = IF i % 2 = 1 THEN "BUY" ELSE "SELL"

\* C26: after any sequence of buy, sell and check_tp_sl calls the history
\* alternates BUY, SELL, BUY, ... from a first BUY, no record of it was
\* changed or removed, and the ledger is Long exactly when the last record is
\* a BUY: BUYs minus SELLs is 1 when Long and 0 when Flat.
C26_HistoryAlternates ==
    [][/\ Len(history') >= Len(history)
       /\ SubSeq(history', 1, Len(history)) = history
       /\ Alternating(history')
       /\ RLt(Zero, position') <=>
             (history' # <<>> /\ history'[Len(history')].type = "BUY")
       /\ CountOf(history', "BUY") - CountOf(history', "SELL")
             = IF RLt(Zero, position') THEN 1 ELSE 0]_vars


\* the sum of the pnl of the SELL records of the history h
RECURSIVE SumPnl(_)
SumPnl(h) ==
    IF h = <<>> THEN Zero
    ELSE LET rest == SumPnl(SubSeq(h, 1, Len(h) - 1))
         IN  IF h[Len(h)].type = "SELL" THEN RAdd(rest, h[Len(h)].pnl) ELSE rest

\* C27: when the ledger is Flat the balance is initial_balance plus the pnl
\* of all SELL records; when it is Long the balance is that sum less
\* entry_notional; the balance is never negative (no sell price of the
\* ledger's calls is negative).
C27_BalanceIsInitialPlusPnl ==
    /\ position = Zero =>
          balance = RAdd(initial_balance, SumPnl(history))
    /\ RLt(Zero, position) =>
          balance = RSub(RAdd(initial_balance, SumPnl(history)), entry_notional)
    /\ RLe(Zero, balance)

====
